---- MODULE Spec2Model ----
(***************************************************************************)
(* The hls4ml workflow of Section_4_hls4ml.ipynb as a state machine: one   *)
(* run of the notebook executes its code cells top to bottom, an uncaught  *)
(* exception ends the run.  The external collaborators (Keras, hls4ml,     *)
(* Vivado) are modelled by the outcomes their calls can have.              *)
(***************************************************************************)
EXTENDS Integers, Sequences, FiniteSets, TLC

\* ------------------------------------------------------------ bounds

\* Largest test set (number of rows of x_test) that is explored.
MaxSamples == 2

\* The notebook processes (kernels) that may execute the workflow.
Runs == {1, 2}

\* The output classes (the notebook has ten, line 29-30; two are explored).
Classes == {0, 1}

\* Entries of a prediction row.
Scores == {0, 1}

VARIABLES
    pc,             \* pc[r]: the statement run r executes next
    error,          \* error[r]: the uncaught exception that ended run r
    model,          \* model[r]: the loaded Keras model
    cfg,            \* cfg[r]: the configuration dictionary
    auto_cfg,       \* auto_cfg[r]: what config_from_keras_model returned
    optimizer,      \* optimizer[r]: OutputRoundingSaturationMode class state
    hls_model,      \* hls_model[r]: the HLSModel handle (<<>> before convert)
    x_test,         \* x_test[r]: the rows of the test set's feature matrix
    y_test,         \* y_test[r]: one-hot labels of the test set
    y_hls,          \* y_hls[r]: predictions of the fixed-point emulation
    y_qke,          \* y_qke[r]: predictions of the QKeras model
    accuracy,       \* accuracy[r]: <<QKeras accuracy, hls4ml accuracy>> as printed
    build_calls,    \* build_calls[r]: invocations of the EDA backend
    report,         \* report[r]: what read_vivado_report returned
    completed,      \* completed[r]: the stages run r has completed, in order
    disk            \* disk[d]: the content of directory d

vars == <<pc, error, model, cfg, auto_cfg, optimizer, hls_model, x_test,
          y_test, y_hls, y_qke, accuracy, build_calls, report, completed, disk>>

\* ------------------------------------------------------- the notebook

\* The notebook with the Synthesize cell moved before the Evaluate cells.
CellOrderSynthesizeFirst ==
    <<"load", "config", "ov_Model", "ov_q_dense", "ov_q_dense_1",
      "ov_activation_2", "rounding", "convert", "compile", "build", "predict",
      "accuracy", "report", "done">>

\* The notebook with the Report cell moved before the Synthesize cell.
CellOrderReportFirst ==
    <<"load", "config", "ov_Model", "ov_q_dense", "ov_q_dense_1",
      "ov_activation_2", "rounding", "convert", "compile", "predict",
      "accuracy", "report", "build", "done">>

\* The statements of the code cells, in notebook order.
CellOrder ==
    <<"load", "config", "ov_Model", "ov_q_dense", "ov_q_dense_1",
      "ov_activation_2", "rounding", "convert", "compile", "predict",
      "accuracy", "build", "report", "done">>

\* The six stages of the workflow.
StageOrder ==
    <<"load", "build_config", "convert_compile", "evaluate", "synthesize",
      "read_report">>

\* The stage a statement belongs to.
StageOf(p) ==
    CASE p = "load" -> "load"
      [] p \in {"config", "ov_Model", "ov_q_dense", "ov_q_dense_1",
                "ov_activation_2", "rounding"} -> "build_config"
      [] p \in {"convert", "compile"} -> "convert_compile"
      [] p \in {"predict", "accuracy"} -> "evaluate"
      [] p = "build" -> "synthesize"
      [] p = "report" -> "read_report"
      [] OTHER -> "end"

IndexOf(seq, x) == CHOOSE i \in 1..Len(seq) : seq[i] = x

\* The statement executed after p.
After(p) == CellOrder[IndexOf(CellOrder, p) + 1]

OutputDir == "section2_hls4ml_prj"
ModelFile == "./section2_model_0.h5"
FpgaPart == "xcu250-figd2104-2L-e"
Dirs == {OutputDir}

RunTag == [r \in Runs |-> IF r = 1 THEN "run1" ELSE "run2"]

\* ------------------------------------------------- Python dictionaries

EmptyDict == [k \in {} |-> ""]

\* d[k] = v: the key is created when the dictionary has none.
DictSet(d, k, v) == [x \in (DOMAIN d) \cup {k} |-> IF x = k THEN v ELSE d[x]]

\* The literal {'Precision': 'ap_fixed<16,6>', 'ReuseFactor': 1, 'Strategy': 'Resource'}.
ModelOverride ==
    [x \in {"Precision", "ReuseFactor", "Strategy"} |->
        CASE x = "Precision" -> "ap_fixed<16,6>"
          [] x = "ReuseFactor" -> 1
          [] x = "Strategy" -> "Resource"]

\* cfg before line 82 has run.
NoCfg == [Model |-> EmptyDict, LayerName |-> EmptyDict]

\* The class attributes of OutputRoundingSaturationMode before line 110.
NoRounding == [layers |-> {}, rounding_mode |-> "None", saturation_mode |-> "None"]

\* Lines 110-112.
ActivationRounding ==
    [layers |-> {"Activation"}, rounding_mode |-> "AP_RND", saturation_mode |-> "AP_SAT"]

\* ------------------------------- what config_from_keras_model returns

\* The layers the overrides of lines 105-107 address.
TargetLayers == {"q_dense", "q_dense_1", "activation_2"}

\* A layer no override addresses.
OtherLayers == {"activation"}

\* The per-layer settings derived from a layer's quantizers.
LayerBase(withStrategy) ==
    [x \in {"Precision", "ReuseFactor"} \cup (IF withStrategy THEN {"Strategy"} ELSE {}) |->
        CASE x = "Precision" -> "ap_fixed<6,1>"
          [] x = "ReuseFactor" -> 1
          [] x = "Strategy" -> "Resource"]

\* The 'Model' scope of an auto-derived dictionary.
ModelBase(extra) ==
    [x \in {"Precision", "ReuseFactor", "Strategy"} \cup extra |->
        CASE x = "Precision" -> "ap_fixed<16,6>"
          [] x = "ReuseFactor" -> 1
          [] x = "Strategy" -> "Latency"
          [] x = "BramFactor" -> 1000000000]

\* The dictionaries config_from_keras_model(model, granularity='name') may
\* return: which layers the model has, and which settings it derives.
AutoConfigs ==
    { [Model |-> ModelBase(extra),
       LayerName |-> [n \in present \cup OtherLayers |-> LayerBase(withStrategy)]] :
        extra \in SUBSET {"BramFactor"},
        present \in SUBSET TargetLayers,
        withStrategy \in BOOLEAN }

\* The dictionary derived for the model of Section 2 itself.
NominalAutoConfig ==
    [Model |-> ModelBase({}),
     LayerName |-> [n \in TargetLayers \cup OtherLayers |-> LayerBase(FALSE)]]

\* --------------------------------------------------------- the test set

\* to_categorical(y, 10): row i holds a 1 in column y[i] and 0 elsewhere.
to_categorical(y) == [i \in DOMAIN y |-> [c \in Classes |-> IF c = y[i] THEN 1 ELSE 0]]

\* np.argmax(a, axis=1): per row, the first column holding the row's maximum.
argmax(a) ==
    [i \in DOMAIN a |->
        CHOOSE c \in Classes :
            /\ \A d \in Classes : a[i][d] <= a[i][c]
            /\ \A d \in Classes : d < c => a[i][d] < a[i][c]]

\* accuracy_score(y_true, y_pred): <<matching rows, rows>>, the fraction kept
\* as numerator and denominator.
accuracy_score(y_true, y_pred) ==
    <<Cardinality({i \in DOMAIN y_true : y_true[i] = y_pred[i]}), Len(y_true)>>

\* The prediction rows a classifier can return (some class scores highest).
PredictionRows == {v \in [Classes -> Scores] : \E c \in Classes : v[c] = 1}

\* The sizes of test set explored.
SampleCounts == 1..MaxSamples

\* -------------------------------------------------------------- the disk

\* A directory holding no project.
EmptyDir == [project |-> "absent", emulation |-> "absent", reports |-> "absent"]

\* What a run may find in the output directory: nothing, or the project an
\* earlier run left there, with or without its reports.
InitialDirs ==
    {EmptyDir,
     [project |-> "stale", emulation |-> "stale", reports |-> "absent"],
     [project |-> "stale", emulation |-> "stale", reports |-> "stale"]}

\* ------------------------------------------------------------ execution

\* A notebook whose cells swallow their exceptions.
RunningAlways(r) == TRUE

\* A run goes on while no exception is uncaught: no cell has a try/except.
Running(r) == error[r] = "none"

\* The statement completes and the next one is up.
Advance(r) ==
    /\ pc' = [pc EXCEPT ![r] = After(pc[r])]
    /\ completed' = [completed EXCEPT ![r] =
            IF StageOf(After(pc[r])) # StageOf(pc[r])
            THEN Append(@, StageOf(pc[r])) ELSE @]
    /\ error' = error

\* The statement raises e, which nothing catches.
Raise(r, e) ==
    /\ error' = [error EXCEPT ![r] = e]
    /\ UNCHANGED <<pc, completed>>

Init ==
    /\ pc = [r \in Runs |-> "load"]
    /\ error = [r \in Runs |-> "none"]
    /\ model = [r \in Runs |-> "None"]
    /\ cfg = [r \in Runs |-> NoCfg]
    /\ auto_cfg = [r \in Runs |-> NoCfg]
    /\ optimizer = [r \in Runs |-> NoRounding]
    /\ hls_model = [r \in Runs |-> <<>>]
    /\ x_test = [r \in Runs |-> <<>>]
    /\ y_test = [r \in Runs |-> <<>>]
    /\ y_hls = [r \in Runs |-> <<>>]
    /\ y_qke = [r \in Runs |-> <<>>]
    /\ accuracy = [r \in Runs |-> <<>>]
    /\ build_calls = [r \in Runs |-> 0]
    /\ report = [r \in Runs |-> <<>>]
    /\ completed = [r \in Runs |-> <<>>]
    /\ disk \in [Dirs -> InitialDirs]

\* Line 59: model = tf.keras.models.load_model(...).
Load(r) ==
    /\ pc[r] = "load" /\ Running(r)
    /\ \/ model' = [model EXCEPT ![r] = ModelFile] /\ Advance(r)
       \/ Raise(r, "LoadError") /\ UNCHANGED model
    /\ UNCHANGED <<cfg, auto_cfg, optimizer, hls_model, x_test, y_test, y_hls, y_qke,
                   accuracy, build_calls, report, disk>>

\* Lines 82-83: cfg = hls4ml.utils.config_from_keras_model(model, granularity='name').
Config(r, autos) ==
    /\ pc[r] = "config" /\ Running(r)
    /\ \E a \in autos :
        /\ cfg' = [cfg EXCEPT ![r] = a]
        /\ auto_cfg' = [auto_cfg EXCEPT ![r] = a]
    /\ Advance(r)
    /\ UNCHANGED <<model, optimizer, hls_model, x_test, y_test, y_hls, y_qke,
                   accuracy, build_calls, report, disk>>

\* Line 104: cfg['Model'] = {...}: the whole 'Model' scope is replaced.
OverrideModel(r) ==
    /\ pc[r] = "ov_Model" /\ Running(r)
    /\ cfg' = [cfg EXCEPT ![r].Model = ModelOverride]
    /\ Advance(r)
    /\ UNCHANGED <<model, auto_cfg, optimizer, hls_model, x_test, y_test, y_hls, y_qke,
                   accuracy, build_calls, report, disk>>

\* cfg['LayerName'][layer][key] = value: KeyError when cfg['LayerName'] has
\* no such layer; the key is created when the layer has none.
OverrideLayer(r, at, layer, key, value) ==
    /\ pc[r] = at /\ Running(r)
    /\ IF layer \in DOMAIN cfg[r].LayerName
       THEN /\ cfg' = [cfg EXCEPT ![r].LayerName[layer] = DictSet(@, key, value)]
            /\ Advance(r)
       ELSE /\ Raise(r, "KeyError")
            /\ UNCHANGED cfg
    /\ UNCHANGED <<model, auto_cfg, optimizer, hls_model, x_test, y_test, y_hls, y_qke,
                   accuracy, build_calls, report, disk>>

\* Line 105: cfg['LayerName']['q_dense']['ReuseFactor'] = 112.
OverrideQDense(r) == OverrideLayer(r, "ov_q_dense", "q_dense", "ReuseFactor", 112)

\* Line 106: cfg['LayerName']['q_dense_1']['Strategy'] = 'Latency'.
OverrideQDense1(r) == OverrideLayer(r, "ov_q_dense_1", "q_dense_1", "Strategy", "Latency")

\* Line 107 with the key misspelt as in the text of line 94.
OverrideActivation2Misspelt(r) ==
    OverrideLayer(r, "ov_activation_2", "activation_2", "Stratgey", "Stable")

\* Line 107: cfg['LayerName']['activation_2']['Strategy'] = 'Stable'.
OverrideActivation2(r) ==
    OverrideLayer(r, "ov_activation_2", "activation_2", "Strategy", "Stable")

\* Lines 110-112 writing the modes into the dictionary instead.
SetRoundingInDict(r) ==
    /\ pc[r] = "rounding" /\ Running(r)
    /\ cfg' = [cfg EXCEPT ![r].Model =
            DictSet(DictSet(@, "rounding_mode", "AP_RND"), "saturation_mode", "AP_SAT")]
    /\ Advance(r)
    /\ UNCHANGED <<model, auto_cfg, optimizer, hls_model, x_test, y_test, y_hls, y_qke,
                   accuracy, build_calls, report, disk>>

\* Lines 110-112: the class attributes of OutputRoundingSaturationMode.
SetRounding(r) ==
    /\ pc[r] = "rounding" /\ Running(r)
    /\ optimizer' = [optimizer EXCEPT ![r] = ActivationRounding]
    /\ Advance(r)
    /\ UNCHANGED <<model, cfg, auto_cfg, hls_model, x_test, y_test, y_hls, y_qke,
                   accuracy, build_calls, report, disk>>

\* Lines 131-134: hls_model = hls4ml.converters.convert_from_keras_model(
\* model, hls_config=cfg, output_dir='section2_hls4ml_prj', fpga_part=...).
Convert(r) ==
    /\ pc[r] = "convert" /\ Running(r)
    /\ \/ /\ hls_model' = [hls_model EXCEPT ![r] =
                <<[config |-> cfg[r], output_dir |-> OutputDir, fpga_part |-> FpgaPart]>>]
          /\ Advance(r)
       \/ /\ Raise(r, "ConversionError")
          /\ UNCHANGED hls_model
    /\ UNCHANGED <<model, cfg, auto_cfg, optimizer, x_test, y_test, y_hls, y_qke,
                   accuracy, build_calls, report, disk>>

\* Line 135: hls_model.compile() "writes out the HLS project and compiles the
\* fixed-point emulation library" (line 120); a failing compiler leaves the
\* sources it was given.
Compile(r) ==
    /\ pc[r] = "compile" /\ Running(r)
    /\ LET d == hls_model[r][1].output_dir IN
       \/ /\ disk' = [disk EXCEPT ![d].project = RunTag[r], ![d].emulation = RunTag[r]]
          /\ Advance(r)
       \/ /\ disk' = [disk EXCEPT ![d].project = RunTag[r]]
          /\ Raise(r, "BuildError")
    /\ UNCHANGED <<model, cfg, auto_cfg, optimizer, hls_model, x_test, y_test, y_hls,
                   y_qke, accuracy, build_calls, report>>

\* Lines 152-154: the test set, then y_hls = hls_model.predict(x_test) and
\* y_qke = model.predict(x_test), one row per row of x_test.
Predict(r, counts) ==
    /\ pc[r] = "predict" /\ Running(r)
    /\ \E n \in counts :
        \E labels \in [1..n -> Classes], hls \in [1..n -> PredictionRows],
           qke \in [1..n -> PredictionRows] :
            /\ x_test' = [x_test EXCEPT ![r] = [i \in 1..n |-> i]]
            /\ y_test' = [y_test EXCEPT ![r] = to_categorical(labels)]
            /\ y_hls' = [y_hls EXCEPT ![r] = hls]
            /\ y_qke' = [y_qke EXCEPT ![r] = qke]
    /\ Advance(r)
    /\ UNCHANGED <<model, cfg, auto_cfg, optimizer, hls_model, accuracy,
                   build_calls, report, disk>>

\* Lines 171-172 followed by an assertion that the two accuracies agree.
AccuracyGate(r) ==
    /\ pc[r] = "accuracy" /\ Running(r)
    /\ LET qk == accuracy_score(argmax(y_test[r]), argmax(y_qke[r]))
           hl == accuracy_score(argmax(y_test[r]), argmax(y_hls[r]))
       IN /\ accuracy' = [accuracy EXCEPT ![r] = <<qk, hl>>]
          /\ IF qk = hl THEN Advance(r) ELSE Raise(r, "AssertionError")
    /\ UNCHANGED <<model, cfg, auto_cfg, optimizer, hls_model, x_test, y_test, y_hls,
                   y_qke, build_calls, report, disk>>

\* Lines 171-172 with line 172 copied from line 171 and y_qke left in it.
AccuracyOfQKerasTwice(r) ==
    /\ pc[r] = "accuracy" /\ Running(r)
    /\ accuracy' = [accuracy EXCEPT ![r] =
            <<accuracy_score(argmax(y_test[r]), argmax(y_qke[r])),
              accuracy_score(argmax(y_test[r]), argmax(y_qke[r]))>>]
    /\ Advance(r)
    /\ UNCHANGED <<model, cfg, auto_cfg, optimizer, hls_model, x_test, y_test, y_hls,
                   y_qke, build_calls, report, disk>>

\* Lines 171-172: both accuracies are printed; nothing is compared.
Accuracy(r) ==
    /\ pc[r] = "accuracy" /\ Running(r)
    /\ accuracy' = [accuracy EXCEPT ![r] =
            <<accuracy_score(argmax(y_test[r]), argmax(y_qke[r])),
              accuracy_score(argmax(y_test[r]), argmax(y_hls[r]))>>]
    /\ Advance(r)
    /\ UNCHANGED <<model, cfg, auto_cfg, optimizer, hls_model, x_test, y_test, y_hls,
                   y_qke, build_calls, report, disk>>

\* Line 189 in a loop that calls the backend again when it failed.
SynthesizeRetry(r) ==
    /\ pc[r] = "build" /\ Running(r)
    /\ build_calls' = [build_calls EXCEPT ![r] = @ + 1]
    /\ LET d == hls_model[r][1].output_dir IN
       \/ /\ disk' = [disk EXCEPT ![d].reports = RunTag[r]]
          /\ Advance(r)
       \/ UNCHANGED <<pc, error, completed, disk>>
    /\ UNCHANGED <<model, cfg, auto_cfg, optimizer, hls_model, x_test, y_test, y_hls,
                   y_qke, accuracy, report>>

\* Line 189 with reset=True: the backend starts from a clean project and
\* drops the emulation library compile() built.
SynthesizeReset(r) ==
    /\ pc[r] = "build" /\ Running(r)
    /\ build_calls' = [build_calls EXCEPT ![r] = @ + 1]
    /\ LET d == hls_model[r][1].output_dir IN
       \/ /\ disk' = [disk EXCEPT ![d].reports = RunTag[r], ![d].emulation = "absent"]
          /\ Advance(r)
       \/ /\ Raise(r, "BuildError")
          /\ UNCHANGED disk
    /\ UNCHANGED <<model, cfg, auto_cfg, optimizer, hls_model, x_test, y_test, y_hls,
                   y_qke, accuracy, report>>

\* Line 189: hls_model.build(csim=False, synth=True, vsynth=True, export=False):
\* one call of the backend, which leaves its reports in the project directory
\* or fails.
Synthesize(r) ==
    /\ pc[r] = "build" /\ Running(r)
    /\ build_calls' = [build_calls EXCEPT ![r] = @ + 1]
    /\ LET d == hls_model[r][1].output_dir IN
       \/ /\ disk' = [disk EXCEPT ![d].reports = RunTag[r]]
          /\ Advance(r)
       \/ /\ Raise(r, "BuildError")
          /\ UNCHANGED disk
    /\ UNCHANGED <<model, cfg, auto_cfg, optimizer, hls_model, x_test, y_test, y_hls,
                   y_qke, accuracy, report>>

\* The reporter's contract: it finds a report in directory d once the backend
\* has left one there.
ReportAvailable(d) == disk[d].reports # "absent"

\* Line 206: hls4ml.report.read_vivado_report(hls_model.config.get_output_dir()).
Report(r) ==
    /\ pc[r] = "report" /\ Running(r)
    /\ LET d == hls_model[r][1].output_dir IN
       IF ReportAvailable(d)
       THEN /\ report' = [report EXCEPT ![r] = <<[dir |-> d, from |-> disk[d].reports]>>]
            /\ Advance(r)
       ELSE /\ Raise(r, "ReportNotFoundError")
            /\ UNCHANGED report
    /\ UNCHANGED <<model, cfg, auto_cfg, optimizer, hls_model, x_test, y_test, y_hls,
                   y_qke, accuracy, build_calls, disk>>

\* One statement of run r, with the configurations and test sets given.
Step(r, autos, counts) ==
    \/ Load(r)
    \/ Config(r, autos)
    \/ OverrideModel(r)
    \/ OverrideQDense(r)
    \/ OverrideQDense1(r)
    \/ OverrideActivation2(r)
    \/ SetRounding(r)
    \/ Convert(r)
    \/ Compile(r)
    \/ Predict(r, counts)
    \/ Accuracy(r)
    \/ Synthesize(r)
    \/ Report(r)

\* One run of the notebook, over every configuration and test set.
Next == Step(1, AutoConfigs, SampleCounts)

Spec == Init /\ [][Next]_vars

\* Two runs of the notebook in the same working directory, interleaved.
NextTwoRuns == \E r \in Runs : Step(r, {NominalAutoConfig}, {1})

SpecTwoRuns == Init /\ [][NextTwoRuns]_vars

\* ---------------------------------------------------------- the claims

\* The position of statement p in the notebook.
Position(p) == IndexOf(CellOrder, p)

\* The number of stages that lie wholly before statement p.
StagesBefore(p) ==
    IF StageOf(p) = "end" THEN Len(StageOrder) ELSE IndexOf(StageOrder, StageOf(p)) - 1

\* Dictionary d holds v under k.
Has(d, k, v) == k \in DOMAIN d /\ d[k] = v

\* Conversion has begun or is over.
ConversionReached(r) ==
    pc[r] \in {"convert", "compile", "predict", "accuracy", "build", "report", "done"}

\* C1: in every run the six stages execute in the order load, build config,
\* convert/compile, evaluate, synthesize, read report: whenever a run is at
\* a statement of some stage, the stages it has completed are exactly the
\* stages before that one, each once and in order.
C1_StagesInOrder ==
    \A r \in Runs : completed[r] = SubSeq(StageOrder, 1, StagesBefore(pc[r]))

C1_Witness == pc[1] = "done" /\ completed[1] = StageOrder /\ error[1] = "none"

\* The (scope, key) pairs of the per-layer overrides, with their statements.
LayerOverrides ==
    {[at |-> "ov_q_dense", layer |-> "q_dense", key |-> "ReuseFactor"],
     [at |-> "ov_q_dense_1", layer |-> "q_dense_1", key |-> "Strategy"],
     [at |-> "ov_activation_2", layer |-> "activation_2", key |-> "Strategy"]}

\* All overrides of lines 104-107 have been applied.
OverridesApplied(r) == Position(pc[r]) > Position("ov_activation_2")

\* C2: after all overrides are applied, every entry of the auto-derived
\* dictionary whose (scope, key) pair no override touched is still there with
\* its auto-derived value: the entries of 'Model' other than Precision,
\* ReuseFactor and Strategy, and every per-layer entry other than
\* q_dense.ReuseFactor, q_dense_1.Strategy and activation_2.Strategy.
C2_UntouchedEntriesKeepBaseline ==
    \A r \in Runs : OverridesApplied(r) =>
        /\ \A k \in (DOMAIN auto_cfg[r].Model) \ {"Precision", "ReuseFactor", "Strategy"} :
              Has(cfg[r].Model, k, auto_cfg[r].Model[k])
        /\ \A l \in DOMAIN auto_cfg[r].LayerName :
              /\ l \in DOMAIN cfg[r].LayerName
              /\ \A k \in DOMAIN auto_cfg[r].LayerName[l] :
                    (\A o \in LayerOverrides : ~(o.layer = l /\ o.key = k))
                        => Has(cfg[r].LayerName[l], k, auto_cfg[r].LayerName[l][k])

\* Override o has been attempted by run r.
Attempted(r, o) ==
    \/ Position(pc[r]) > Position(o.at)
    \/ pc[r] = o.at /\ error[r] # "none"

\* The auto-derived dictionary a has no entry for the pair override o addresses.
TargetAbsent(a, o) ==
    \/ o.layer \notin DOMAIN a.LayerName
    \/ o.key \notin DOMAIN a.LayerName[o.layer]

\* C3: once an override whose layer or key is absent from the auto-derived
\* dictionary has been attempted, the run has ended with the error that
\* reports the unknown target and the dictionary is the auto-derived one.
C3_UnknownTargetRaisesAndKeepsDict ==
    \A r \in Runs : \A o \in LayerOverrides :
        (Attempted(r, o) /\ TargetAbsent(auto_cfg[r], o))
            => (error[r] = "KeyError" /\ cfg[r] = auto_cfg[r])

\* C4: the dictionary handed to the converter holds the last value written
\* to every overridden pair, and the dictionary is not written again once
\* conversion has started.
C4_ConverterSeesLastWrites ==
    \A r \in Runs : hls_model[r] # <<>> =>
        LET c == hls_model[r][1].config IN
        /\ Has(c.Model, "Precision", "ap_fixed<16,6>")
        /\ Has(c.Model, "ReuseFactor", 1)
        /\ Has(c.Model, "Strategy", "Resource")
        /\ "q_dense" \in DOMAIN c.LayerName
        /\ Has(c.LayerName["q_dense"], "ReuseFactor", 112)
        /\ "q_dense_1" \in DOMAIN c.LayerName
        /\ Has(c.LayerName["q_dense_1"], "Strategy", "Latency")
        /\ "activation_2" \in DOMAIN c.LayerName
        /\ Has(c.LayerName["activation_2"], "Strategy", "Stable")
        /\ cfg[r] = c

\* A run whose auto-derived layers carried a Strategy of their own has been
\* converted and has ended.
C4_Witness ==
    /\ hls_model[1] # <<>> /\ pc[1] = "done"
    /\ Has(auto_cfg[1].LayerName["activation"], "Strategy", "Resource")

\* The setting names of the rounding and saturation modes.
RoundingKeys == {"layers", "rounding_mode", "saturation_mode"}

\* C5: from the moment conversion begins, the rounding and saturation modes
\* of the 'Activation' layers are AP_RND and AP_SAT in the converter's own
\* state, and no scope of the configuration dictionary holds them.
C5_RoundingSetBeforeConversion ==
    \A r \in Runs : ConversionReached(r) =>
        /\ optimizer[r] = ActivationRounding
        /\ (DOMAIN cfg[r].Model) \cap RoundingKeys = {}
        /\ \A l \in DOMAIN cfg[r].LayerName :
              (DOMAIN cfg[r].LayerName[l]) \cap RoundingKeys = {}

C5_Witness ==
    /\ pc[1] = "compile" /\ hls_model[1] # <<>>
    /\ optimizer[1] = ActivationRounding

\* The stages in which a statement can raise error e.
RaisedIn(e) ==
    CASE e = "LoadError" -> {"load"}
      [] e = "KeyError" -> {"build_config"}
      [] e = "ConversionError" -> {"convert_compile"}
      [] e = "BuildError" -> {"convert_compile", "synthesize"}
      [] e = "ReportNotFoundError" -> {"read_report"}
      [] OTHER -> {}

\* Run r has ended in a failure of the stage it is at: the stages before it
\* are completed, and what compile and synthesis wrote is on the disk.
HaltedAtFailingStage(r) ==
    /\ StageOf(pc[r]) \in RaisedIn(error[r])
    /\ completed[r] = SubSeq(StageOrder, 1, StagesBefore(pc[r]))
    /\ report[r] = <<>>
    /\ Position(pc[r]) > Position("compile") =>
          /\ disk[OutputDir].project = RunTag[r]
          /\ disk[OutputDir].emulation = RunTag[r]
    /\ Position(pc[r]) > Position("build") => disk[OutputDir].reports = RunTag[r]

\* C6: a run that has failed stands at the failing stage with the artifacts
\* of the completed stages on the disk, and from then on nothing of that run
\* changes (no later stage runs, the stage is not tried again) and the disk
\* stays as it is.
C6_FailureHalts ==
    /\ [](\A r \in Runs : error[r] # "none" => HaltedAtFailingStage(r))
    /\ [][\A r \in Runs : error[r] # "none" =>
            /\ pc'[r] = pc[r] /\ error'[r] = error[r]
            /\ completed'[r] = completed[r]
            /\ build_calls'[r] = build_calls[r]
            /\ report'[r] = report[r] /\ hls_model'[r] = hls_model[r]
            /\ disk' = disk]_vars

\* Synthesis has failed after the project was written and compiled.
C6_Witness ==
    /\ error[1] = "BuildError" /\ pc[1] = "build"
    /\ disk[OutputDir].project = "run1" /\ disk[OutputDir].emulation = "run1"
    /\ completed[1] = SubSeq(StageOrder, 1, 4)

\* The reporter has been called by run r.
ReportRequested(r) ==
    \/ Position(pc[r]) > Position("report")
    \/ pc[r] = "report" /\ error[r] # "none"

C8_SynthesisAtMostOnce ==
    \A r \in Runs :
        /\ build_calls[r] <= 1
        /\ (pc[r] = "build" /\ error[r] = "BuildError") => build_calls[r] = 1
        /\ Position(pc[r]) > Position("build") => build_calls[r] = 1

C8_Witness == pc[1] = "build" /\ error[1] = "BuildError" /\ build_calls[1] = 1

\* C9: a step of the evaluator never fails the run, whatever the two
\* accuracies are, leaves the model, the configuration dictionary, the handle
\* and the disk as they are, and after the accuracies are printed synthesis
\* is next.
C9_EvaluatorIsNoGate ==
    [][\A r \in Runs :
        (pc[r] \in {"predict", "accuracy"} /\ <<pc[r], error[r]>> # <<pc'[r], error'[r]>>) =>
            /\ error'[r] = "none"
            /\ model'[r] = model[r] /\ cfg'[r] = cfg[r]
            /\ hls_model'[r] = hls_model[r] /\ disk' = disk
            /\ optimizer'[r] = optimizer[r]
            /\ pc[r] = "accuracy" => (pc'[r] = "build" /\ accuracy'[r] # <<>>)]_vars

\* The two accuracies are as far apart as they can be, and synthesis ran.
C9_Witness ==
    /\ accuracy[1] # <<>>
    /\ accuracy[1][1][1] = 0
    /\ accuracy[1][2][1] = accuracy[1][2][2]
    /\ build_calls[1] = 1

\* Run r has a handle on directory d and has not ended.
Using(r, d) ==
    /\ hls_model[r] # <<>> /\ hls_model[r][1].output_dir = d
    /\ pc[r] # "done" /\ error[r] = "none"

\* C10: no step in which the compiler or the synthesizer of one run writes
\* into a directory is taken while the other run is using that directory.
C10_OutputDirExclusive ==
    [][\A r \in Runs : \A d \in Dirs :
        (pc[r] \in {"compile", "build"} /\ pc'[r] # pc[r] /\ disk'[d] # disk[d])
            => \A q \in Runs \ {r} : ~Using(q, d)]_vars

\* The sources and the emulation library of the project in directory d are
\* the same before and after the step.
ProjectKept(d) ==
    /\ disk'[d].project = disk[d].project
    /\ disk'[d].emulation = disk[d].emulation

\* C11 as stated: once the converter has returned the handle of the project,
\* no step of compile, evaluate or report changes the project's sources or
\* emulation library, and only the synthesizer's step changes its reports.
C11_ProjectFixedAfterConvert ==
    [][\A r \in Runs : hls_model[r] # <<>> =>
        LET d == hls_model[r][1].output_dir IN
        /\ pc[r] \in {"compile", "predict", "accuracy", "report"} => disk'[d] = disk[d]
        /\ pc[r] = "build" => ProjectKept(d)]_vars

\* C11, amended: the project is on the disk once compile() has written it
\* out and built the emulation library; from then on no step of evaluate or
\* report changes the directory, and the synthesizer's step changes nothing
\* of it but the reports, which become its own.  Conversion itself writes
\* nothing.
C11_ProjectFixedAfterCompile ==
    [][\A r \in Runs :
        /\ pc[r] = "convert" => disk' = disk
        /\ Position(pc[r]) > Position("compile") =>
            LET d == hls_model[r][1].output_dir IN
            /\ ProjectKept(d)
            /\ pc[r] # "build" => disk'[d] = disk[d]
            /\ disk'[d].reports # disk[d].reports =>
                  (pc[r] = "build" /\ disk'[d].reports = RunTag[r])]_vars

\* The run has ended: the directory holds what compile wrote and the reports
\* of the synthesis.
C11_Witness ==
    /\ pc[1] = "done"
    /\ disk[OutputDir] = [project |-> "run1", emulation |-> "run1", reports |-> "run1"]

\* Class c is where prediction row v has its maximum (the first such class).
HighestAt(v, c) ==
    /\ \A d \in Classes : v[d] <= v[c]
    /\ \A d \in Classes : d < c => v[d] < v[c]

\* The samples of labels y that predictions p classify as labelled.
Correct(y, p) ==
    {i \in 1..Len(y) : \E c \in Classes : y[i][c] = 1 /\ HighestAt(p[i], c)}

\* Array a has one row per row of x and one column per class.
ShapedLike(a, x) == Len(a) = Len(x) /\ \A i \in 1..Len(a) : DOMAIN a[i] = Classes

\* C12: when the accuracies are printed, the test set has N >= 1 rows, its
\* labels are one-hot, both prediction arrays have one row per row of the
\* same x_test and one column per class, and each accuracy is the number of
\* samples whose highest-scoring class is the labelled class, over N, hence
\* between 0 and 1.
C12_AccuracyIsMatchingFraction ==
    \A r \in Runs : accuracy[r] # <<>> =>
        LET N == Len(x_test[r]) IN
        /\ N >= 1
        /\ ShapedLike(y_test[r], x_test[r])
        /\ ShapedLike(y_qke[r], x_test[r])
        /\ ShapedLike(y_hls[r], x_test[r])
        /\ \A i \in 1..N : Cardinality({c \in Classes : y_test[r][i][c] = 1}) = 1
        /\ \A i \in 1..N : \A c \in Classes : y_test[r][i][c] \in {0, 1}
        /\ accuracy[r][1] = <<Cardinality(Correct(y_test[r], y_qke[r])), N>>
        /\ accuracy[r][2] = <<Cardinality(Correct(y_test[r], y_hls[r])), N>>
        /\ \A k \in 1..2 : 0 <= accuracy[r][k][1] /\ accuracy[r][k][1] <= accuracy[r][k][2]

\* Two samples, the QKeras model right on one and the emulation on both, one
\* of the emulation's rows a tie between the classes.
C12_Witness ==
    /\ accuracy[1] # <<>> /\ Len(x_test[1]) = 2
    /\ accuracy[1][1] = <<1, 2>> /\ accuracy[1][2] = <<2, 2>>
    /\ \E i \in 1..2 : \A c \in Classes : y_hls[1][i][c] = 1

====
